---- MODULE Spec2Model ----
(***************************************************************************)
(* Hotel booking backend (src/app.py): three Flask request handlers,       *)
(* add_booking, get_room_availability and cancel_booking, each running     *)
(* parameterized SQL on its own MySQL connection.                           *)
(*                                                                         *)
(* The database is the committed relations Booking, Room and RoomType      *)
(* plus, per open connection, the private write set of its transaction     *)
(* (autocommit is off by default in mysql.connector): a statement adds to  *)
(* the write set, conn.commit() applies the write set to the committed     *)
(* relations in one step, conn.rollback() drops it.  Any statement may     *)
(* raise mysql.connector.Error.  Each handler is cut at its database       *)
(* calls, so requests of different workers interleave between statements.  *)
(***************************************************************************)
EXTENDS Integers, Sequences, FiniteSets, TLC

\* ---------------------------------------------------------------- bounds
NumWorkers == 2
MaxRoom == 2
MaxBookingId == 2

Workers == 1..NumWorkers
RoomNumbers == 1..MaxRoom
BookingIds == 1..MaxBookingId

\* ---------------------------------------------------------------- state
VARIABLES
    bookings,      \* committed Booking relation: BookingID -> RoomNumber
    rooms,         \* committed Room relation: RoomNumber -> [RoomTypeID, Status]
    roomTypes,     \* committed RoomType relation: RoomTypeID -> [TypeName, Rate]
    nextId,        \* AUTO_INCREMENT counter of Booking.BookingID
    fkEnforced,    \* whether the schema declares Booking.RoomNumber a foreign key
    pc,            \* per worker: position in the handler
    op,            \* per worker: handler being run
    room_number,   \* per worker: local room_number
    booking_id,    \* per worker: local booking_id
    conn,          \* per worker: connection open
    cursor,        \* per worker: cursor open
    txn,           \* per worker: uncommitted write set of the connection
    resp,          \* per worker: HTTP response of the request
    seen,          \* per worker: the write request answered just before this
                   \* request, if this request began with no other in flight
                   \* and no response has been produced since
    last,          \* the write request that produced its response last, if any
    created,       \* the bookingIds answered with 201, in the order of their commits
    cancelled      \* the bookingIds for which a cancel_booking answered 200

vars == <<bookings, rooms, roomTypes, nextId, fkEnforced, pc, op, room_number,
          booking_id, conn, cursor, txn, resp, seen, last, created, cancelled>>

db == <<bookings, rooms, roomTypes>>

\* The RoomType rows: TypeName and Rate per RoomTypeID.
RoomTypeRows ==
    (1 :> [TypeName |-> "Single", Rate |-> 100]) @@
    (2 :> [TypeName |-> "Double", Rate |-> 150])

NoTxn == [ins |-> 0, del |-> 0, upd |-> "none"]
NoResp == [code |-> 0, body |-> <<>>]
NoLast == [op |-> "none", room |-> 0, id |-> 0]

\* ------------------------------------------------------ SQL, as operators

\* The join written with the wrong key: ON r.RoomNumber = rt.RoomTypeID.
RoomsJoinOnRoomNumber(rms, rts) ==
    { [RoomNumber |-> r, RoomType |-> rts[t].TypeName,
       Rate |-> rts[t].Rate, Status |-> rms[r].Status] :
         <<r, t>> \in { p \in (DOMAIN rms) \X (DOMAIN rts) : p[1] = p[2] } }

\* SELECT r.RoomNumber, rt.TypeName AS RoomType, rt.Rate, r.Status
\* FROM Room r JOIN RoomType rt ON r.RoomTypeID = rt.RoomTypeID
RoomsJoin(rms, rts) ==
    { [RoomNumber |-> r, RoomType |-> rts[t].TypeName,
       Rate |-> rts[t].Rate, Status |-> rms[r].Status] :
         <<r, t>> \in { p \in (DOMAIN rms) \X (DOMAIN rts) : rms[p[1]].RoomTypeID = p[2] } }

\* The ordering written as ORDER BY r.RoomNumber DESC.
RECURSIVE OrderByRoomNumberDesc(_)
OrderByRoomNumberDesc(S) ==
    IF S = {} THEN <<>>
    ELSE LET m == CHOOSE e \in S : \A f \in S : e.RoomNumber >= f.RoomNumber
         IN  <<m>> \o OrderByRoomNumberDesc(S \ {m})

\* ORDER BY r.RoomNumber
RECURSIVE OrderByRoomNumber(_)
OrderByRoomNumber(S) ==
    IF S = {} THEN <<>>
    ELSE LET m == CHOOSE e \in S : \A f \in S : e.RoomNumber <= f.RoomNumber
         IN  <<m>> \o OrderByRoomNumber(S \ {m})

\* UPDATE Room SET Status = s WHERE RoomNumber = r
SetStatus(rms, r, s) ==
    [x \in DOMAIN rms |-> IF x = r THEN [rms[x] EXCEPT !.Status = s] ELSE rms[x]]

\* INSERT INTO Booking ... VALUES (..., r, ...) with BookingID = id
InsertBooking(bks, id, r) ==
    [x \in (DOMAIN bks) \cup {id} |-> IF x = id THEN r ELSE bks[x]]

\* DELETE FROM Booking WHERE BookingID = id
DeleteBooking(bks, id) ==
    [x \in (DOMAIN bks) \ {id} |-> bks[x]]

\* ---------------------------------------------------------------- Init
\* A consistent database: no Booking, every Room Vacant and of an existing
\* RoomType.  Which RoomNumbers have a Room row, and whether the schema
\* enforces Booking.RoomNumber as a foreign key, is fixed by the deployment.
Init ==
    /\ bookings = <<>>
    /\ \E D \in SUBSET RoomNumbers :
         rooms \in [D -> [RoomTypeID : DOMAIN RoomTypeRows, Status : {"Vacant"}]]
    /\ roomTypes = RoomTypeRows
    /\ nextId = 1
    /\ fkEnforced \in BOOLEAN
    /\ pc = [w \in Workers |-> "idle"]
    /\ op = [w \in Workers |-> "none"]
    /\ room_number = [w \in Workers |-> 0]
    /\ booking_id = [w \in Workers |-> 0]
    /\ conn = [w \in Workers |-> FALSE]
    /\ cursor = [w \in Workers |-> FALSE]
    /\ txn = [w \in Workers |-> NoTxn]
    /\ resp = [w \in Workers |-> NoResp]
    /\ seen = [w \in Workers |-> NoLast]
    /\ last = NoLast
    /\ created = <<>>
    /\ cancelled = {}

\* ------------------------------------------------------------- requests

\* A worker takes the next request: op is the route, r the JSON field
\* roomNumber (POST /api/bookings), id the path parameter
\* (DELETE /api/bookings/<id>).
Start(w, o, r, id) ==
    /\ pc[w] = "idle"
    /\ pc' = [pc EXCEPT ![w] = "connect"]
    /\ op' = [op EXCEPT ![w] = o]
    /\ room_number' = [room_number EXCEPT ![w] = r]
    /\ booking_id' = [booking_id EXCEPT ![w] = id]
    /\ resp' = [resp EXCEPT ![w] = NoResp]
    /\ seen' = [seen EXCEPT ![w] =
                  IF o = "list" /\ \A v \in Workers \ {w} : pc[v] = "idle"
                  THEN last ELSE NoLast]
    /\ UNCHANGED <<db, nextId, fkEnforced, created, cancelled, conn, cursor, txn, last>>

\* POST /api/bookings: room_number = data.get('roomNumber')
StartAdd(w, r) == Start(w, "add", r, 0)

\* GET /api/rooms
StartList(w) == Start(w, "list", 0, 0)

\* DELETE /api/bookings/<int:booking_id>
StartCancel(w, id) == Start(w, "cancel", 0, id)

\* The statement each handler runs first inside its try block.
FirstStatement(o) ==
    CASE o = "add" -> "insert"
      [] o = "list" -> "query"
      [] o = "cancel" -> "select"

\* return jsonify(...), code: the response is decided; b is its body.
Return(w, code, b) ==
    resp' = [resp EXCEPT ![w] = [code |-> code, body |-> b]]

\* The handler without its "if conn is None" test: a failed connection is
\* carried on into the try block.
ConnectNoCheck(w) ==
    /\ pc[w] = "connect"
    /\ \/ /\ conn' = [conn EXCEPT ![w] = TRUE]
          /\ cursor' = [cursor EXCEPT ![w] = TRUE]
       \/ UNCHANGED <<conn, cursor>>
    /\ pc' = [pc EXCEPT ![w] = FirstStatement(op[w])]
    /\ UNCHANGED <<db, nextId, fkEnforced, created, cancelled, txn, resp, last, op, room_number,
                   booking_id, seen>>

\* conn = get_db_connection(); if conn is None: return 500; cursor = conn.cursor()
Connect(w) ==
    /\ pc[w] = "connect"
    /\ \/ /\ conn' = [conn EXCEPT ![w] = TRUE]
          /\ cursor' = [cursor EXCEPT ![w] = TRUE]
          /\ pc' = [pc EXCEPT ![w] = FirstStatement(op[w])]
          /\ UNCHANGED <<resp, last, op, room_number, booking_id, seen>>
       \/ /\ Return(w, 500, <<"Database connection failed">>)
          /\ last' = NoLast
          /\ pc' = [pc EXCEPT ![w] = "idle"]
          /\ op' = [op EXCEPT ![w] = "none"]
          /\ room_number' = [room_number EXCEPT ![w] = 0]
          /\ booking_id' = [booking_id EXCEPT ![w] = 0]
          /\ seen' = [seen EXCEPT ![w] = NoLast]
          /\ UNCHANGED <<conn, cursor>>
    /\ UNCHANGED <<db, nextId, fkEnforced, created, cancelled, txn>>

\* What conn.commit() makes of the Booking relation: the transaction's
\* pending INSERT and DELETE become visible together.
CommitBookings(bks, t, r) ==
    LET a == IF t.ins # 0 THEN InsertBooking(bks, t.ins, r) ELSE bks
    IN  IF t.del # 0 THEN DeleteBooking(a, t.del) ELSE a

\* What conn.commit() makes of the Room relation: the pending UPDATE.
CommitRooms(rms, t, r) ==
    IF t.upd # "none" THEN SetStatus(rms, r, t.upd) ELSE rms

\* conn.commit(): the write set of the transaction reaches the committed
\* relations in one step.
Commit(w) ==
    /\ bookings' = CommitBookings(bookings, txn[w], room_number[w])
    /\ rooms' = CommitRooms(rooms, txn[w], room_number[w])
    /\ txn' = [txn EXCEPT ![w] = NoTxn]
    /\ UNCHANGED roomTypes

\* The except clause written with conn.commit() in place of conn.rollback().
RollbackCommits(w) ==
    Commit(w)

\* conn.rollback(): the write set of the transaction is dropped.
Rollback(w) ==
    /\ txn' = [txn EXCEPT ![w] = NoTxn]
    /\ UNCHANGED db

\* The statement at hand raises mysql.connector.Error:
\* except mysql.connector.Error: conn.rollback(); return {"error"}, 400
Except(w) ==
    /\ Rollback(w)
    /\ Return(w, 400, <<>>)
    /\ last' = NoLast
    /\ pc' = [pc EXCEPT ![w] = "finally"]
    /\ UNCHANGED <<nextId, fkEnforced, created, cancelled, op, room_number, booking_id, conn, cursor, seen>>

\* ---------------------------------------------------------- add_booking

\* add_booking refusing a room that is not Vacant: the INSERT is guarded by
\* the room's Status and fails otherwise.
AddInsertIfVacant(w) ==
    /\ pc[w] = "insert"
    /\ \/ /\ fkEnforced => room_number[w] \in DOMAIN rooms
          /\ room_number[w] \in DOMAIN rooms => rooms[room_number[w]].Status = "Vacant"
          /\ nextId <= MaxBookingId
          /\ txn' = [txn EXCEPT ![w].ins = nextId]
          /\ booking_id' = [booking_id EXCEPT ![w] = nextId]
          /\ nextId' = nextId + 1
          /\ pc' = [pc EXCEPT ![w] = "update"]
          /\ UNCHANGED <<db, fkEnforced, created, cancelled, op, room_number,
                         conn, cursor, resp, seen, last>>
       \/ Except(w)

\* The BookingID taken from the number of rows in Booking (COUNT(*) + 1)
\* in place of the AUTO_INCREMENT counter.
AddInsertCountsRows(w) ==
    /\ pc[w] = "insert"
    /\ \/ /\ fkEnforced => room_number[w] \in DOMAIN rooms
          /\ nextId <= MaxBookingId
          /\ txn' = [txn EXCEPT ![w].ins = Cardinality(DOMAIN bookings) + 1]
          /\ booking_id' = [booking_id EXCEPT ![w] = Cardinality(DOMAIN bookings) + 1]
          /\ nextId' = nextId + 1
          /\ pc' = [pc EXCEPT ![w] = "update"]
          /\ UNCHANGED <<db, fkEnforced, created, cancelled, op, room_number,
                         conn, cursor, resp, seen, last>>
       \/ Except(w)

\* The INSERT run on an autocommit connection: the Booking row is committed
\* by the statement itself.
AddInsertAutocommit(w) ==
    /\ pc[w] = "insert"
    /\ \/ /\ fkEnforced => room_number[w] \in DOMAIN rooms
          /\ nextId <= MaxBookingId
          /\ bookings' = InsertBooking(bookings, nextId, room_number[w])
          /\ booking_id' = [booking_id EXCEPT ![w] = nextId]
          /\ nextId' = nextId + 1
          /\ pc' = [pc EXCEPT ![w] = "update"]
          /\ UNCHANGED <<rooms, roomTypes, fkEnforced, created, cancelled, op, room_number, conn, cursor,
                         txn, resp, seen, last>>
       \/ Except(w)

\* cursor.execute(booking_sql, ...); booking_id = cursor.lastrowid
AddInsert(w) ==
    /\ pc[w] = "insert"
    /\ \/ /\ fkEnforced => room_number[w] \in DOMAIN rooms
          /\ nextId <= MaxBookingId
          /\ txn' = [txn EXCEPT ![w].ins = nextId]
          /\ booking_id' = [booking_id EXCEPT ![w] = nextId]
          /\ nextId' = nextId + 1
          /\ pc' = [pc EXCEPT ![w] = "update"]
          /\ UNCHANGED <<db, fkEnforced, created, cancelled, op, room_number, conn, cursor, resp, seen, last>>
       \/ Except(w)

\* add_booking without its Step 3: the Room row is never updated.
AddUpdateSkipped(w) ==
    /\ pc[w] = "update"
    /\ \/ /\ pc' = [pc EXCEPT ![w] = "commit"]
          /\ UNCHANGED <<db, nextId, fkEnforced, created, cancelled, op, room_number, booking_id,
                         conn, cursor, txn, resp, seen, last>>
       \/ Except(w)

\* cursor.execute("UPDATE Room SET Status = 'Occupied' WHERE RoomNumber = %s")
AddUpdate(w) ==
    /\ pc[w] = "update"
    /\ \/ /\ txn' = [txn EXCEPT ![w].upd = "Occupied"]
          /\ pc' = [pc EXCEPT ![w] = "commit"]
          /\ UNCHANGED <<db, nextId, fkEnforced, created, cancelled, op, room_number, booking_id,
                         conn, cursor, resp, seen, last>>
       \/ Except(w)

\* conn.commit(); return {"message", "bookingId"}, 201
AddCommit(w) ==
    /\ pc[w] = "commit"
    /\ op[w] = "add"
    /\ \/ /\ Commit(w)
          /\ Return(w, 201, <<booking_id[w]>>)
          /\ last' = [op |-> "add", room |-> room_number[w], id |-> booking_id[w]]
          /\ created' = Append(created, booking_id[w])
          /\ pc' = [pc EXCEPT ![w] = "finally"]
          /\ UNCHANGED <<nextId, fkEnforced, cancelled, op, room_number, booking_id, conn, cursor, seen>>
       \/ Except(w)

\* The finally clause without conn.close().
FinallyCursorOnly(w) ==
    /\ pc[w] = "finally"
    /\ cursor' = [cursor EXCEPT ![w] = FALSE]
    /\ txn' = [txn EXCEPT ![w] = NoTxn]
    /\ pc' = [pc EXCEPT ![w] = "idle"]
    /\ op' = [op EXCEPT ![w] = "none"]
    /\ room_number' = [room_number EXCEPT ![w] = 0]
    /\ booking_id' = [booking_id EXCEPT ![w] = 0]
    /\ resp' = [resp EXCEPT ![w].body = <<>>]
    /\ seen' = [seen EXCEPT ![w] = NoLast]
    /\ UNCHANGED <<db, nextId, fkEnforced, created, cancelled, conn, last>>

\* finally: cursor.close(); conn.close(); the response goes out and the
\* worker is free for the next request.
Finally(w) ==
    /\ pc[w] = "finally"
    /\ cursor' = [cursor EXCEPT ![w] = FALSE]
    /\ conn' = [conn EXCEPT ![w] = FALSE]
    /\ txn' = [txn EXCEPT ![w] = NoTxn]
    /\ pc' = [pc EXCEPT ![w] = "idle"]
    /\ op' = [op EXCEPT ![w] = "none"]
    /\ room_number' = [room_number EXCEPT ![w] = 0]
    /\ booking_id' = [booking_id EXCEPT ![w] = 0]
    /\ resp' = [resp EXCEPT ![w].body = <<>>]
    /\ seen' = [seen EXCEPT ![w] = NoLast]
    /\ UNCHANGED <<db, nextId, fkEnforced, created, cancelled, last>>

\* ------------------------------------------------ get_room_availability

\* The list handler also writing: it resets every Room to Vacant on the way,
\* on a connection that commits each statement.
ListQueryResetsStatus(w) ==
    /\ pc[w] = "query"
    /\ \/ Return(w, 200, OrderByRoomNumber(RoomsJoin(rooms, roomTypes)))
       \/ Return(w, 500, <<>>)
    /\ rooms' = [r \in DOMAIN rooms |-> [rooms[r] EXCEPT !.Status = "Vacant"]]
    /\ seen' = [seen EXCEPT ![w] = IF seen[w] = last THEN last ELSE NoLast]
    /\ last' = NoLast
    /\ pc' = [pc EXCEPT ![w] = "finally"]
    /\ UNCHANGED <<bookings, roomTypes, nextId, fkEnforced, created, cancelled, op,
                   room_number, booking_id, conn, cursor, txn>>

\* cursor.execute(sql); rooms = cursor.fetchall(); return jsonify(rooms)
\* except mysql.connector.Error: return {"error"}, 500
ListQuery(w) ==
    /\ pc[w] = "query"
    /\ \/ Return(w, 200, OrderByRoomNumber(RoomsJoin(rooms, roomTypes)))
       \/ Return(w, 500, <<>>)
    /\ seen' = [seen EXCEPT ![w] = IF seen[w] = last THEN last ELSE NoLast]
    /\ last' = NoLast
    /\ pc' = [pc EXCEPT ![w] = "finally"]
    /\ UNCHANGED <<db, nextId, fkEnforced, created, cancelled, op, room_number, booking_id, conn, cursor, txn>>

\* ------------------------------------------------------- cancel_booking

\* cancel_booking without the "if not result" test: a missing Booking is
\* cancelled all the same, for whatever room number the handler is left with.
CancelSelectNoCheck(w) ==
    /\ pc[w] = "select"
    /\ \/ /\ \E r \in RoomNumbers :
               /\ booking_id[w] \in DOMAIN bookings => r = bookings[booking_id[w]]
               /\ room_number' = [room_number EXCEPT ![w] = r]
          /\ pc' = [pc EXCEPT ![w] = "delete"]
          /\ UNCHANGED <<db, nextId, fkEnforced, created, cancelled, op, booking_id, conn, cursor,
                         txn, resp, seen, last>>
       \/ Except(w)

\* cursor.execute("SELECT RoomNumber FROM Booking WHERE BookingID = %s")
\* result = cursor.fetchone(); if not result: return 404; room_number = result[0]
CancelSelect(w) ==
    /\ pc[w] = "select"
    /\ \/ /\ booking_id[w] \in DOMAIN bookings
          /\ room_number' = [room_number EXCEPT ![w] = bookings[booking_id[w]]]
          /\ pc' = [pc EXCEPT ![w] = "delete"]
          /\ UNCHANGED <<db, nextId, fkEnforced, created, cancelled, op, booking_id, conn, cursor,
                         txn, resp, seen, last>>
       \/ /\ booking_id[w] \notin DOMAIN bookings
          /\ Return(w, 404, <<>>)
          /\ last' = NoLast
          /\ pc' = [pc EXCEPT ![w] = "finally"]
          /\ UNCHANGED <<db, nextId, fkEnforced, created, cancelled, op, room_number, booking_id,
                         conn, cursor, txn, seen>>
       \/ Except(w)

\* The DELETE run on an autocommit connection: the Booking row is gone as
\* soon as the statement has run.
CancelDeleteAutocommit(w) ==
    /\ pc[w] = "delete"
    /\ \/ /\ bookings' = DeleteBooking(bookings, booking_id[w])
          /\ pc' = [pc EXCEPT ![w] = "cupdate"]
          /\ UNCHANGED <<rooms, roomTypes, nextId, fkEnforced, created, cancelled, op, room_number,
                         booking_id, conn, cursor, txn, resp, seen, last>>
       \/ Except(w)

\* cursor.execute("DELETE FROM Booking WHERE BookingID = %s")
CancelDelete(w) ==
    /\ pc[w] = "delete"
    /\ \/ /\ txn' = [txn EXCEPT ![w].del = booking_id[w]]
          /\ pc' = [pc EXCEPT ![w] = "cupdate"]
          /\ UNCHANGED <<db, nextId, fkEnforced, created, cancelled, op, room_number, booking_id,
                         conn, cursor, resp, seen, last>>
       \/ Except(w)

\* cancel_booking freeing the room only when no other Booking references it.
CancelUpdateIfLast(w) ==
    /\ pc[w] = "cupdate"
    /\ \/ /\ txn' = [txn EXCEPT ![w].upd =
                       IF \E b \in DOMAIN bookings :
                              b # booking_id[w] /\ bookings[b] = room_number[w]
                       THEN "none" ELSE "Vacant"]
          /\ pc' = [pc EXCEPT ![w] = "commit"]
          /\ UNCHANGED <<db, nextId, fkEnforced, created, cancelled, op, room_number,
                         booking_id, conn, cursor, resp, seen, last>>
       \/ Except(w)

\* cancel_booking without its Step 3: the Room row is never updated.
CancelUpdateSkipped(w) ==
    /\ pc[w] = "cupdate"
    /\ \/ /\ pc' = [pc EXCEPT ![w] = "commit"]
          /\ UNCHANGED <<db, nextId, fkEnforced, created, cancelled, op, room_number, booking_id,
                         conn, cursor, txn, resp, seen, last>>
       \/ Except(w)

\* cursor.execute("UPDATE Room SET Status = 'Vacant' WHERE RoomNumber = %s")
CancelUpdate(w) ==
    /\ pc[w] = "cupdate"
    /\ \/ /\ txn' = [txn EXCEPT ![w].upd = "Vacant"]
          /\ pc' = [pc EXCEPT ![w] = "commit"]
          /\ UNCHANGED <<db, nextId, fkEnforced, created, cancelled, op, room_number, booking_id,
                         conn, cursor, resp, seen, last>>
       \/ Except(w)

\* conn.commit(); return {"message"}, 200
CancelCommit(w) ==
    /\ pc[w] = "commit"
    /\ op[w] = "cancel"
    /\ \/ /\ Commit(w)
          /\ Return(w, 200, <<booking_id[w], room_number[w]>>)
          /\ last' = [op |-> "cancel", room |-> room_number[w], id |-> booking_id[w]]
          /\ cancelled' = cancelled \cup {booking_id[w]}
          /\ pc' = [pc EXCEPT ![w] = "finally"]
          /\ UNCHANGED <<nextId, fkEnforced, created, op, room_number, booking_id, conn, cursor, seen>>
       \/ Except(w)

\* ---------------------------------------------------------------- Next
Next ==
    \E w \in Workers :
        \/ \E r \in RoomNumbers : StartAdd(w, r)
        \/ StartList(w)
        \/ \E id \in BookingIds : StartCancel(w, id)
        \/ Connect(w)
        \/ AddInsert(w)
        \/ AddUpdate(w)
        \/ AddCommit(w)
        \/ ListQuery(w)
        \/ CancelSelect(w)
        \/ CancelDelete(w)
        \/ CancelUpdate(w)
        \/ CancelCommit(w)
        \/ Finally(w)

Spec == Init /\ [][Next]_vars

TypeOK ==
    /\ DOMAIN bookings \subseteq BookingIds
    /\ \A b \in DOMAIN bookings : bookings[b] \in RoomNumbers
    /\ DOMAIN rooms \subseteq RoomNumbers
    /\ \A r \in DOMAIN rooms : rooms[r].Status \in {"Vacant", "Occupied"}
    /\ nextId \in 1..(MaxBookingId + 1)
    /\ \A w \in Workers : pc[w] \in {"idle", "connect", "insert", "update", "commit",
                                     "finally", "query", "select", "delete", "cupdate"}

\* ------------------------------------------------------------ properties

\* Some live Booking references room r.
Live(r) == \E b \in DOMAIN bookings : bookings[b] = r

\* The body of a ListRoomAvailability response has an entry for room r
\* with Status s.
Shows(b, r, s) == \E i \in 1..Len(b) : b[i].RoomNumber = r /\ b[i].Status = s

\* Worker w holds the successful response of a ListRoomAvailability.
Listed(w) == op[w] = "list" /\ pc[w] = "finally" /\ resp[w].code = 200

\* This step is worker w's SELECT over Room returning its rows.
ListReturns(w) == pc[w] = "query" /\ pc'[w] = "finally" /\ resp'[w].code = 200

\* This step is a step of worker w's request.
StepOf(w) == pc'[w] # pc[w]

\* C1: in every committed state, a room with a Room row is Occupied exactly
\* when some live Booking references it.
C1_StatusReflectsBookings ==
    \A r \in DOMAIN rooms : (rooms[r].Status = "Occupied") <=> Live(r)

\* C2, as stated: a ListRoomAvailability that runs next after a CreateBooking
\* answered 201 for any roomNumber shows that roomNumber as Occupied.
C2_ListShowsOccupiedAnyRoom ==
    \A w \in Workers :
        (Listed(w) /\ seen[w].op = "add") =>
            Shows(resp[w].body, seen[w].room, "Occupied")

\* C2, amended: a ListRoomAvailability that runs next after a CreateBooking
\* answered 201 for a roomNumber that has a Room row shows that roomNumber as
\* Occupied.
C2_ListShowsOccupied ==
    \A w \in Workers :
        (Listed(w) /\ seen[w].op = "add" /\ seen[w].room \in DOMAIN rooms) =>
            Shows(resp[w].body, seen[w].room, "Occupied")

C2_Witness ==
    \E w \in Workers :
        /\ Listed(w)
        /\ seen[w].op = "add"
        /\ seen[w].room \in DOMAIN rooms
        /\ Len(resp[w].body) = MaxRoom

\* C3, as stated: a ListRoomAvailability that runs next after a CancelBooking
\* answered 200 shows the cancelled Booking's room as Vacant, and that
\* Booking no longer exists.
C3_ListShowsVacantAnyRoom ==
    \A w \in Workers :
        (Listed(w) /\ seen[w].op = "cancel") =>
            /\ Shows(resp[w].body, seen[w].room, "Vacant")
            /\ seen[w].id \notin DOMAIN bookings

\* C3, amended: a ListRoomAvailability that runs next after a CancelBooking
\* answered 200 shows the cancelled Booking's room as Vacant when that room
\* has a Room row, and the cancelled Booking no longer exists.
C3_ListShowsVacant ==
    \A w \in Workers :
        (Listed(w) /\ seen[w].op = "cancel") =>
            /\ seen[w].room \in DOMAIN rooms =>
                   Shows(resp[w].body, seen[w].room, "Vacant")
            /\ seen[w].id \notin DOMAIN bookings

C3_Witness ==
    \E w \in Workers :
        /\ Listed(w)
        /\ seen[w].op = "cancel"
        /\ seen[w].room \in DOMAIN rooms
        /\ bookings # <<>>

\* C4: a CancelBooking whose SELECT matches no Booking row answers 404, has
\* no statement pending, and no step of that request changes a Booking, Room
\* or RoomType row.
C4_NotFoundChangesNothing ==
    [][\A w \in Workers :
          /\ (/\ pc[w] = "select"
              /\ booking_id[w] \notin DOMAIN bookings
              /\ StepOf(w)
              /\ resp'[w].code # 400) =>
                 (/\ resp'[w].code = 404
                  /\ pc'[w] = "finally"
                  /\ txn'[w] = NoTxn
                  /\ UNCHANGED db)
          /\ (StepOf(w) /\ resp[w].code = 404 /\ pc[w] = "finally") =>
                 UNCHANGED db]_vars

C4_Witness ==
    \E w \in Workers :
        /\ op[w] = "cancel"
        /\ pc[w] = "finally"
        /\ resp[w].code = 404
        /\ bookings # <<>>
        /\ \E r \in DOMAIN rooms : rooms[r].Status = "Occupied"

\* C5: no step of a CreateBooking other than its successful commit changes
\* the committed rows, and a CreateBooking that met a database error answers
\* 400 with nothing pending and without its Booking row in the database.
C5_AddErrorLeavesNothing ==
    [][\A w \in Workers :
          (op[w] = "add" /\ StepOf(w) /\ resp'[w].code # 201) =>
              /\ UNCHANGED db
              /\ resp'[w].code = 400 =>
                     /\ txn'[w] = NoTxn
                     /\ booking_id'[w] \notin DOMAIN bookings']_vars

C5_Witness ==
    \E w \in Workers :
        /\ op[w] = "add"
        /\ pc[w] = "finally"
        /\ resp[w].code = 400
        /\ booking_id[w] # 0
        /\ room_number[w] \in DOMAIN rooms

\* C6: no step of a CancelBooking other than its successful commit changes
\* the committed rows: after a database error at the DELETE or the UPDATE the
\* request answers 400 with nothing pending, the Booking row and the Room's
\* Status being what they were before the failing statement.
C6_CancelErrorLeavesNothing ==
    [][\A w \in Workers :
          (op[w] = "cancel" /\ StepOf(w) /\ resp'[w].code # 200) =>
              /\ UNCHANGED db
              /\ resp'[w].code = 400 => txn'[w] = NoTxn]_vars

C6_Witness ==
    \E w \in Workers :
        /\ op[w] = "cancel"
        /\ pc[w] = "finally"
        /\ resp[w].code = 400
        /\ booking_id[w] \in DOMAIN bookings
        /\ bookings[booking_id[w]] = room_number[w]
        /\ room_number[w] \in DOMAIN rooms
        /\ rooms[room_number[w]].Status = "Occupied"

\* C7: the committed rows change only in the commit step of a request, and
\* that step makes both writes of the request visible at once: the Booking
\* inserted and its room Occupied, or the Booking deleted and its room Vacant.
C7_WritesCommitTogether ==
    [][db' # db =>
         \E w \in Workers :
            /\ pc[w] = "commit"
            /\ pc'[w] = "finally"
            /\ \/ /\ op[w] = "add"
                  /\ resp'[w].code = 201
                  /\ booking_id[w] \notin DOMAIN bookings
                  /\ booking_id[w] \in DOMAIN bookings'
                  /\ bookings'[booking_id[w]] = room_number[w]
                  /\ room_number[w] \in DOMAIN rooms =>
                         rooms'[room_number[w]].Status = "Occupied"
               \/ /\ op[w] = "cancel"
                  /\ resp'[w].code = 200
                  /\ booking_id[w] \notin DOMAIN bookings'
                  /\ room_number[w] \in DOMAIN rooms =>
                         rooms'[room_number[w]].Status = "Vacant"]_vars

C7_Witness ==
    \E w \in Workers, v \in Workers :
        /\ w # v
        /\ pc[w] = "commit"
        /\ txn[w].ins # 0
        /\ txn[w].upd = "Occupied"
        /\ room_number[w] \in DOMAIN rooms
        /\ rooms[room_number[w]].Status = "Vacant"
        /\ Listed(v)

\* C8: a successful ListRoomAvailability returns its entries in strictly
\* ascending RoomNumber order, and the empty sequence when there is no Room
\* row.
C8_ListAscending ==
    \A w \in Workers :
        Listed(w) =>
            /\ \A i \in 1..Len(resp[w].body), j \in 1..Len(resp[w].body) :
                   i < j => resp[w].body[i].RoomNumber < resp[w].body[j].RoomNumber
            /\ DOMAIN rooms = {} => resp[w].body = <<>>

C8_Witness ==
    \E w \in Workers : Listed(w) /\ Len(resp[w].body) >= 2

\* C9: a successful ListRoomAvailability returns exactly one entry per Room
\* row, carrying the room's Status at that time and the TypeName and Rate of
\* the RoomType the room refers to.
C9_ListOneEntryPerRoom ==
    [][\A w \in Workers :
          ListReturns(w) =>
              LET b == resp'[w].body IN
              /\ Len(b) = Cardinality(DOMAIN rooms)
              /\ { b[i].RoomNumber : i \in 1..Len(b) } = DOMAIN rooms
              /\ \A i \in 1..Len(b) :
                     LET r == b[i].RoomNumber IN
                     /\ b[i].Status = rooms[r].Status
                     /\ b[i].RoomType = roomTypes[rooms[r].RoomTypeID].TypeName
                     /\ b[i].Rate = roomTypes[rooms[r].RoomTypeID].Rate]_vars

C9_Witness ==
    \E w \in Workers :
        /\ Listed(w)
        /\ Len(resp[w].body) = MaxRoom
        /\ \E i \in 1..Len(resp[w].body) : resp[w].body[i].Status = "Occupied"
        /\ \E i \in 1..Len(resp[w].body) : resp[w].body[i].RoomType = "Double"

C11_ConnectFailure ==
    [][\A w \in Workers :
          /\ (pc[w] = "connect" /\ StepOf(w) /\ ~conn'[w]) =>
                 /\ resp'[w].code = 500
                 /\ pc'[w] = "idle"
                 /\ ~cursor'[w]
                 /\ txn'[w] = NoTxn
                 /\ UNCHANGED <<db, nextId>>
          /\ pc'[w] \notin {"idle", "connect"} => conn'[w]]_vars

C11_Witness ==
    \E w \in Workers :
        /\ pc[w] = "idle"
        /\ resp[w] = [code |-> 500, body |-> <<"Database connection failed">>]
        /\ ~conn[w]
        /\ bookings # <<>>
        /\ \E r \in DOMAIN rooms : rooms[r].Status = "Occupied"

\* The bookingIds answered with 201 so far.
Created == { created[i] : i \in 1..Len(created) }

\* This step is the commit of worker w's add_booking, answered 201.
AddSucceeds(w) == pc[w] = "commit" /\ op[w] = "add" /\ resp'[w].code = 201

\* This step is the commit of worker w's cancel_booking, answered 200.
CancelSucceeds(w) == pc[w] = "commit" /\ op[w] = "cancel" /\ resp'[w].code = 200

\* C12, as stated: the bookingIds answered with 201 are strictly increasing
\* in the order in which their requests committed.
C12_IdsIncreaseInCommitOrder ==
    \A i \in 1..Len(created), j \in 1..Len(created) :
        i < j => created[i] < created[j]

\* C12, amended: the bookingId answered with 201 is the id of the Booking
\* row that this request inserted; it was never answered before, cancelled
\* Bookings included; and an INSERT gets an id greater than every id
\* answered so far and every id held by a request still in flight.
C12_IdsFreshAndIncreaseInInsertOrder ==
    [][\A w \in Workers :
          /\ AddSucceeds(w) =>
                 /\ booking_id[w] = txn[w].ins
                 /\ booking_id[w] \notin DOMAIN bookings
                 /\ booking_id[w] \in DOMAIN bookings'
                 /\ bookings'[booking_id[w]] = room_number[w]
                 /\ resp'[w].body = <<booking_id[w]>>
                 /\ booking_id[w] \notin Created
                 /\ booking_id[w] \notin cancelled
          /\ (pc[w] = "insert" /\ pc'[w] = "update") =>
                 /\ \A b \in Created \cup DOMAIN bookings : b < booking_id'[w]
                 /\ \A v \in Workers \ {w} :
                        op[v] = "add" => booking_id[v] < booking_id'[w]]_vars

C12_Witness ==
    \E w \in Workers :
        /\ op[w] = "add"
        /\ pc[w] = "finally"
        /\ resp[w] = [code |-> 201, body |-> <<booking_id[w]>>]
        /\ Len(created) = 2
        /\ cancelled # {}
        /\ booking_id[w] \in DOMAIN bookings

\* C13: no step of a get_room_availability request, whether it ends with
\* the rows, a query error or a connection failure, changes a Booking, Room
\* or RoomType row, uses up a BookingID or leaves a statement pending.
C13_ListReadOnly ==
    [][\A w \in Workers :
          (op[w] = "list" /\ StepOf(w) /\ pc[w] # "idle") =>
              /\ UNCHANGED <<db, nextId>>
              /\ txn'[w] = NoTxn]_vars

C13_Witness ==
    \E w \in Workers :
        /\ op[w] = "list"
        /\ pc[w] = "finally"
        /\ resp[w].code = 500
        /\ bookings # <<>>
        /\ \E r \in DOMAIN rooms : rooms[r].Status = "Occupied"

\* C14: whatever the Status of the room and however many live Bookings
\* reference it, each statement of an add_booking for a room with a Room row
\* can succeed (while BookingIDs are left), and its commit can answer 201,
\* adding its Booking and keeping every Booking there was.
C14_CreateIgnoresStatus ==
    \A w \in Workers :
        (op[w] = "add" /\ room_number[w] \in DOMAIN rooms) =>
            /\ (pc[w] = "insert" /\ nextId <= MaxBookingId) =>
                   ENABLED (AddInsert(w) /\ pc'[w] = "update")
            /\ pc[w] = "update" =>
                   ENABLED (AddUpdate(w) /\ pc'[w] = "commit")
            /\ pc[w] = "commit" =>
                   ENABLED (/\ AddCommit(w)
                            /\ resp'[w].code = 201
                            /\ DOMAIN bookings' = DOMAIN bookings \cup {booking_id[w]}
                            /\ bookings'[booking_id[w]] = room_number[w]
                            /\ \A b \in DOMAIN bookings : bookings'[b] = bookings[b])

C14_Witness ==
    \E w \in Workers :
        /\ op[w] = "add"
        /\ pc[w] = "finally"
        /\ resp[w].code = 201
        /\ booking_id[w] \in DOMAIN bookings
        /\ room_number[w] \in DOMAIN rooms
        /\ rooms[room_number[w]].Status = "Occupied"
        /\ \E b \in DOMAIN bookings :
               b # booking_id[w] /\ bookings[b] = room_number[w]

\* C15: when a cancel_booking answered 200 commits while another live
\* Booking references the same room, the room is Vacant afterwards and the
\* other Booking is still live.
C15_CancelIgnoresOtherBookings ==
    [][\A w \in Workers :
          (/\ CancelSucceeds(w)
           /\ room_number[w] \in DOMAIN rooms
           /\ \E b \in DOMAIN bookings :
                  b # booking_id[w] /\ bookings[b] = room_number[w]) =>
              /\ rooms'[room_number[w]].Status = "Vacant"
              /\ \E b \in DOMAIN bookings' :
                     b # booking_id[w] /\ bookings'[b] = room_number[w]]_vars

C15_Witness ==
    \E w \in Workers :
        /\ op[w] = "cancel"
        /\ pc[w] = "finally"
        /\ resp[w].code = 200
        /\ room_number[w] \in DOMAIN rooms
        /\ rooms[room_number[w]].Status = "Vacant"
        /\ \E b \in DOMAIN bookings :
               b # booking_id[w] /\ bookings[b] = room_number[w]

\* C16: for any bookingId at most one cancel_booking answers 200: a
\* cancel_booking never answers 200 for a bookingId for which a 200 was
\* answered before.
C16_AtMostOneCancelSucceeds ==
    [][\A w \in Workers : CancelSucceeds(w) => booking_id[w] \notin cancelled]_vars

\* The rows a commit must leave alone: Bookings other than id, the Status of
\* rooms other than r, every RoomTypeID and every RoomType row.
FrameKept(id, r) ==
    /\ \A b \in DOMAIN bookings \ {id} :
           b \in DOMAIN bookings' /\ bookings'[b] = bookings[b]
    /\ DOMAIN bookings' \subseteq DOMAIN bookings \cup {id}
    /\ DOMAIN rooms' = DOMAIN rooms
    /\ \A x \in DOMAIN rooms :
           /\ rooms'[x].RoomTypeID = rooms[x].RoomTypeID
           /\ x # r => rooms'[x].Status = rooms[x].Status
    /\ roomTypes' = roomTypes

\* C17: a successful add_booking adds exactly one Booking row, a successful
\* cancel_booking removes exactly the Booking with its bookingId, and
\* neither changes another Booking, the Status of another room, a
\* RoomTypeID or a RoomType row.
C17_ExactlyOneRow ==
    [][\A w \in Workers :
          /\ AddSucceeds(w) =>
                 /\ booking_id[w] \notin DOMAIN bookings
                 /\ booking_id[w] \in DOMAIN bookings'
                 /\ FrameKept(booking_id[w], room_number[w])
          /\ CancelSucceeds(w) =>
                 /\ booking_id[w] \in DOMAIN bookings
                 /\ booking_id[w] \notin DOMAIN bookings'
                 /\ FrameKept(booking_id[w], room_number[w])]_vars

\* C17 without "exactly" for the cancel: a successful cancel_booking leaves
\* no Booking with its bookingId, whether or not one was still there.
C17_FrameKept ==
    [][\A w \in Workers :
          /\ AddSucceeds(w) =>
                 /\ booking_id[w] \notin DOMAIN bookings
                 /\ booking_id[w] \in DOMAIN bookings'
                 /\ FrameKept(booking_id[w], room_number[w])
          /\ CancelSucceeds(w) =>
                 /\ booking_id[w] \notin DOMAIN bookings'
                 /\ FrameKept(booking_id[w], room_number[w])]_vars

====
